---- MODULE Spec2Model ----
(***************************************************************************)
(* Verification model of the request-orchestration core of the             *)
(* pdf-summary-generator application: RateLimiterService,                  *)
(* ErrorHandlerService, AiService (retry revision and streaming            *)
(* revisions) and SummarizationService (Observable revision and streaming  *)
(* revision).                                                              *)
(*                                                                         *)
(* Text values are tuples of one-character strings, so that                *)
(* String.prototype.includes and toLowerCase are computed, not assumed.    *)
(***************************************************************************)
EXTENDS Integers, Sequences, FiniteSets, TLC

VARIABLES
    \* ---- ErrorHandlerService.handleApiError, applied to one input ----
    failure,            \* the raw failure value handed to handleApiError
    appError,           \* the AppError it returned (has = FALSE before the call)
    \* ---- RateLimiterService ----
    now,                \* Date.now(), in ticks of 100 ms
    isBrowser,          \* isPlatformBrowser(platformId)
    configs,            \* configs[provider] of the provider in use
    requestTimestamps,  \* requestTimestamps[provider]
    callers,            \* per caller: position inside checkRateLimit
    admissions,         \* every timestamp ever pushed (history)
    configUpdates,      \* calls of updateConfig so far (history)
    requestLog,         \* names of the actions registerRequest logged
    \* ---- SummarizationService signals (both revisions) ----
    isProcessing,
    error,              \* null (has = FALSE) or a text
    progress,
    summaryBullets,
    \* ---- SummarizationService.processPdf, Observable revision ----
    pdfPc,              \* position of the innermost processPdf invocation
    retryCount,         \* "let retryCount" of the innermost processPdf invocation
    pdfStarts,          \* how many times the extraction+summary pipeline was started
    pdfDelays,          \* the delayMs of every retry timer set, in order
    unsubscribed,       \* the caller unsubscribed from the observable of the top-level call
    cancelledAt,        \* position at which the caller unsubscribed, or "none" (history)
    lastError,          \* the error the last failed attempt reached catchError with (history)
    lastDecision,       \* what catchError did with it: none, retry, fail (history)
    pdfEmitted,         \* values the top-level subscriber received through next
    pdfTerminal,        \* notification that ended the top-level observable: none, complete, error
    \* ---- AiService.generateSummary, retry revision ----
    remote,             \* how POST /api/summary answers: a response or a failure value
    aiPc,               \* idle, pending (promise of callClaudeApi made), failed, succeeded
    aiAttempts,         \* POSTs to /api/summary issued by callClaudeApi
    aiWaits,            \* backoff waits of the retry operator, in order
    httpPc,             \* none, inflight, answered
    \* ---- SummarizationService.processStreamingPdf and AiService.generateStreamingSummary ----
    stPc,               \* idle, extracting, http, typing, pause, complete, cancelled, failed, threw
    bullets,            \* response.result.summary of the invocation
    bulletIdx,          \* index (from 1) of the bullet whose stream is subscribed or awaited
    scanAcc,            \* accumulator of scan for the current bullet
    snapshots,          \* StreamingSummaryState values the stream delivered, in order
    isStreamingComplete,
    currentBulletIndex,
    currentBulletText,
    streamedBullets,
    destroyedAt,        \* stPc when SummarizationService.ngOnDestroy ran, or "none" (history)
    logged,             \* names of the actions processStreamingPdf logged
    extractedText,      \* what extractTextFromPdf delivered: none, empty, nonempty (history)
    remotePlan,         \* how POST /api/summary answers the 1st, 2nd, ... call of the invocation
    waitsBefore,        \* per snapshot: the timers that elapsed since the snapshot before it (history)
    pendingWaits,       \* the timers that elapsed since the last snapshot (history)
    postCount,          \* POSTs to /api/summary the streaming invocation issued
    otherPc             \* position of a second, overlapping processStreamingPdf invocation

errVars == <<failure, appError>>
rlVars == <<now, isBrowser, configs, requestTimestamps, callers, admissions, configUpdates, requestLog>>
sigVars == <<isProcessing, error, progress, summaryBullets>>
pdfVars ==
    <<pdfPc, retryCount, pdfStarts, pdfDelays, unsubscribed, cancelledAt, lastError, lastDecision, pdfEmitted,
      pdfTerminal, remote, aiPc, aiAttempts, aiWaits, httpPc>>
stVars ==
    <<stPc, bullets, bulletIdx, scanAcc, snapshots, isStreamingComplete, currentBulletIndex,
      currentBulletText, streamedBullets, destroyedAt, logged, extractedText, remotePlan, waitsBefore,
      pendingWaits, postCount,
      otherPc>>
vars ==
    <<failure, appError, now, isBrowser, configs, requestTimestamps, callers, admissions, configUpdates,
      requestLog,
      isProcessing, error, progress, summaryBullets,
      pdfPc, retryCount, pdfStarts, pdfDelays, unsubscribed, cancelledAt, lastError, lastDecision, pdfEmitted,
      pdfTerminal, remote, aiPc, aiAttempts, aiWaits, httpPc,
      stPc, bullets, bulletIdx, scanAcc, snapshots, isStreamingComplete, currentBulletIndex,
      currentBulletText, streamedBullets, destroyedAt, logged, extractedText, remotePlan, waitsBefore,
      pendingWaits, postCount,
      otherPc>>

----------------------------------------------------------------------------
(* Text helpers *)

UpperCaseLetters ==
    [A |-> "a", B |-> "b", C |-> "c", D |-> "d", E |-> "e", F |-> "f", G |-> "g",
     H |-> "h", I |-> "i", J |-> "j", K |-> "k", L |-> "l", M |-> "m", N |-> "n",
     O |-> "o", P |-> "p", Q |-> "q", R |-> "r", S |-> "s", T |-> "t", U |-> "u",
     V |-> "v", W |-> "w", X |-> "x", Y |-> "y", Z |-> "z"]

\* String.prototype.toLowerCase
toLowerCase(s) ==
    [i \in 1..Len(s) |-> IF s[i] \in DOMAIN UpperCaseLetters THEN UpperCaseLetters[s[i]] ELSE s[i]]

\* String.prototype.includes: pat occurs in s as a contiguous substring
includes(s, pat) ==
    \E i \in 0..(Len(s) - Len(pat)) : \A j \in 1..Len(pat) : s[i + j] = pat[j]

DigitChars == <<"0", "1", "2", "3", "4", "5", "6", "7", "8", "9">>

RECURSIVE NumText(_)
\* the decimal text of a non-negative integer, as template literals print it
NumText(n) ==
    IF n < 10 THEN <<DigitChars[n + 1]>>
    ELSE NumText(n \div 10) \o <<DigitChars[(n % 10) + 1]>>

----------------------------------------------------------------------------
(* Failure values: what a rejected call can hand to the error handling.    *)
(* A property of a JS object is absent, a number, or a non-empty string.   *)

Absent == [t |-> "absent", n |-> 0]
Num(n) == [t |-> "num", n |-> n]
Str == [t |-> "str", n |-> 0]

NoMsg == [has |-> FALSE, s |-> <<>>]
Msg(s) == [has |-> TRUE, s |-> s]

\* JS truthiness of a property value (0 and undefined are falsy)
truthy(f) == f.t = "str" \/ (f.t = "num" /\ f.n # 0)

\* instances of Error always carry a string message; other objects may not
ErrorOf(s) ==
    [kind |-> "error", status |-> Absent, statusCode |-> Absent, message |-> Msg(s), nested |-> NoMsg,
     retryable |-> FALSE]

ErrorCategory ==
    [NETWORK |-> "network", AUTHENTICATION |-> "authentication", RATE_LIMIT |-> "rate_limit",
     VALIDATION |-> "validation", SERVER |-> "server", CLIENT |-> "client", UNKNOWN |-> "unknown"]

NoAppError ==
    [has |-> FALSE, message |-> <<>>, category |-> "unknown", statusCode |-> Absent, retryable |-> FALSE]

processErrorInstance(e) ==
    LET lower == toLowerCase(e.message.s) IN
    IF includes(lower, <<"n","e","t","w","o","r","k">>) \/ includes(lower, <<"c","o","n","n","e","c","t","i","o","n">>)
    THEN [has |-> TRUE, message |-> <<"N","e","t","w","o","r","k"," ","c","o","n","n","e","c","t","i","o","n"," ","e","r","r","o","r">>, category |-> ErrorCategory.NETWORK,
          statusCode |-> Absent, retryable |-> TRUE]
    ELSE IF includes(lower, <<"a","u","t","h">>) \/ includes(lower, <<"u","n","a","u","t","h","o","r","i","z","e","d">>) \/ includes(lower, <<"a","p","i"," ","k","e","y">>)
    THEN [has |-> TRUE, message |-> <<"A","u","t","h","e","n","t","i","c","a","t","i","o","n"," ","e","r","r","o","r">>, category |-> ErrorCategory.AUTHENTICATION,
          statusCode |-> Absent, retryable |-> FALSE]
    ELSE [has |-> TRUE,
          message |-> IF e.message.s # <<>> THEN e.message.s ELSE <<"A","n"," ","a","p","p","l","i","c","a","t","i","o","n"," ","e","r","r","o","r"," ","o","c","c","u","r","r","e","d">>,
          category |-> ErrorCategory.CLIENT, statusCode |-> Absent, retryable |-> FALSE]

processResponseError(e) ==
    LET statusCode == IF truthy(e.status) THEN e.status
                      ELSE IF truthy(e.statusCode) THEN e.statusCode
                      ELSE Num(500)
        n == statusCode.n
        isNumber == statusCode.t = "num"
        category ==
            IF ~isNumber THEN ErrorCategory.UNKNOWN
            ELSE IF n >= 400 /\ n < 500
                 THEN IF n = 401 \/ n = 403 THEN ErrorCategory.AUTHENTICATION
                      ELSE IF n = 422 THEN ErrorCategory.VALIDATION
                      ELSE IF n = 429 THEN ErrorCategory.RATE_LIMIT
                      ELSE ErrorCategory.CLIENT
            ELSE IF n >= 500 THEN ErrorCategory.SERVER
            ELSE ErrorCategory.UNKNOWN
        retryable == isNumber /\ ((n >= 400 /\ n < 500 /\ n = 429) \/ n >= 500)
        defaultMessage ==
            IF category = ErrorCategory.AUTHENTICATION THEN <<"A","u","t","h","e","n","t","i","c","a","t","i","o","n"," ","f","a","i","l","e","d">>
            ELSE IF category = ErrorCategory.VALIDATION THEN <<"V","a","l","i","d","a","t","i","o","n"," ","e","r","r","o","r">>
            ELSE IF category = ErrorCategory.RATE_LIMIT THEN <<"R","a","t","e"," ","l","i","m","i","t"," ","e","x","c","e","e","d","e","d">>
            ELSE IF category = ErrorCategory.CLIENT THEN <<"C","l","i","e","n","t"," ","e","r","r","o","r"," ","(">> \o NumText(n) \o <<")">>
            ELSE IF category = ErrorCategory.SERVER THEN <<"S","e","r","v","e","r"," ","e","r","r","o","r"," ","(">> \o NumText(n) \o <<")">>
            ELSE <<"A","P","I"," ","e","r","r","o","r">>
        message ==
            IF e.message.has /\ e.message.s # <<>> THEN e.message.s
            ELSE IF e.nested.has /\ e.nested.s # <<>> THEN e.nested.s
            ELSE defaultMessage
    IN [has |-> TRUE, message |-> message, category |-> category, statusCode |-> statusCode,
        retryable |-> retryable]

isResponseLike(obj) ==
    /\ obj.kind = "object"
    /\ (obj.status.t = "num" \/ obj.statusCode.t = "num")

\* handleApiError with its unknown-error branch marked retryable
handleApiErrorUnknownRetryable(e) ==
    IF e.kind = "error" THEN processErrorInstance(e)
    ELSE IF isResponseLike(e) THEN processResponseError(e)
    ELSE [has |-> TRUE, message |-> <<"A","n"," ","u","n","k","n","o","w","n"," ","e","r","r","o","r"," ","o","c","c","u","r","r","e","d">>, category |-> ErrorCategory.UNKNOWN,
          statusCode |-> Absent, retryable |-> TRUE]

handleApiError(e) ==
    IF e.kind = "error" THEN processErrorInstance(e)
    ELSE IF isResponseLike(e) THEN processResponseError(e)
    ELSE [has |-> TRUE, message |-> <<"A","n"," ","u","n","k","n","o","w","n"," ","e","r","r","o","r"," ","o","c","c","u","r","r","e","d">>, category |-> ErrorCategory.UNKNOWN,
          statusCode |-> Absent, retryable |-> FALSE]

getBaseMessageForCategory(category) ==
    IF category = ErrorCategory.NETWORK
    THEN <<"N","e","t","w","o","r","k"," ","c","o","n","n","e","c","t","i","o","n"," ","e","r","r","o","r","."," ","P","l","e","a","s","e"," ","c","h","e","c","k"," ","y","o","u","r"," ","i","n","t","e","r","n","e","t"," ","c","o","n","n","e","c","t","i","o","n",".">>
    ELSE IF category = ErrorCategory.AUTHENTICATION
    THEN <<"A","u","t","h","e","n","t","i","c","a","t","i","o","n"," ","f","a","i","l","e","d","."," ","P","l","e","a","s","e"," ","c","h","e","c","k"," ","y","o","u","r"," ","A","P","I"," ","k","e","y",".">>
    ELSE IF category = ErrorCategory.RATE_LIMIT
    THEN <<"R","a","t","e"," ","l","i","m","i","t"," ","e","x","c","e","e","d","e","d","."," ","P","l","e","a","s","e"," ","t","r","y"," ","a","g","a","i","n"," ","i","n"," ","a"," ","m","i","n","u","t","e",".">>
    ELSE IF category = ErrorCategory.VALIDATION
    THEN <<"T","h","e"," ","r","e","q","u","e","s","t"," ","c","o","n","t","a","i","n","e","d"," ","i","n","v","a","l","i","d"," ","d","a","t","a",".">>
    ELSE IF category = ErrorCategory.SERVER
    THEN <<"T","h","e"," ","s","e","r","v","e","r"," ","e","n","c","o","u","n","t","e","r","e","d"," ","a","n"," ","e","r","r","o","r","."," ","P","l","e","a","s","e"," ","t","r","y"," ","a","g","a","i","n"," ","l","a","t","e","r",".">>
    ELSE IF category = ErrorCategory.CLIENT
    THEN <<"T","h","e","r","e"," ","w","a","s"," ","a","n"," ","e","r","r","o","r"," ","w","i","t","h"," ","y","o","u","r"," ","r","e","q","u","e","s","t",".">>
    ELSE <<"A","n"," ","u","n","e","x","p","e","c","t","e","d"," ","e","r","r","o","r"," ","o","c","c","u","r","r","e","d","."," ","P","l","e","a","s","e"," ","t","r","y"," ","a","g","a","i","n",".">>

\* getUserFriendlyMessage applied to an AppError (an object that passes isAppError)
getUserFriendlyMessage(a) ==
    LET baseMessage == getBaseMessageForCategory(a.category) IN
    IF a.category = ErrorCategory.SERVER /\ truthy(a.statusCode)
    THEN baseMessage \o <<" ","(">> \o NumText(a.statusCode.n) \o <<")">>
    ELSE baseMessage

----------------------------------------------------------------------------
(* The regular expressions of simplifyErrorMessage, matched as the regex     *)
(* engine matches them (leftmost, greedy, case-insensitive).                 *)

LowerCaseLetters == {UpperCaseLetters[k] : k \in DOMAIN UpperCaseLetters}

\* [a-z] under the i flag
IsLetter(c) == c \in LowerCaseLetters \/ c \in DOMAIN UpperCaseLetters

\* \w
IsWordChar(c) == IsLetter(c) \/ c \in {DigitChars[k] : k \in 1..10} \/ c = "_"

\* \s
IsSpace(c) == c = " "

\* the literal pat stands at position i of s, whatever the case of s
matchesAt(s, i, pat) ==
    /\ i >= 1
    /\ i + Len(pat) - 1 <= Len(s)
    /\ \A j \in 1..Len(pat) : toLowerCase(s)[i + j - 1] = pat[j]

\* membership of a character in a class of the patterns: \s, [^\s], [^a-z], \w
InClass(cls, c) ==
    IF cls = "space" THEN IsSpace(c)
    ELSE IF cls = "nonspace" THEN ~IsSpace(c)
    ELSE IF cls = "nonletter" THEN ~IsLetter(c)
    ELSE IsWordChar(c)

\* the first position from i on whose character is not in the class (Len(s) + 1 if none)
RunEnd(s, i, cls) ==
    CHOOSE k \in i..(Len(s) + 1) :
        /\ \A j \in i..(k - 1) : InClass(cls, s[j])
        /\ (k = Len(s) + 1 \/ ~InClass(cls, s[k]))

\* /bearer\s+[^\s]+/i matched at position i: the position after the match, or 0
bearerMatchEnd(s, i) ==
    IF ~matchesAt(s, i, <<"b","e","a","r","e","r">>) THEN 0
    ELSE LET p == i + 6
             q == RunEnd(s, p, "space")
             r == RunEnd(s, q, "nonspace")
         IN IF q > p /\ r > q THEN r ELSE 0

\* /api[-_]?key[^a-z]*\w+/i matched at position i: the position after the match, or 0
apiKeyMatchEnd(s, i) ==
    IF ~matchesAt(s, i, <<"a","p","i">>) THEN 0
    ELSE LET p == i + 3
             k == IF p <= Len(s) /\ s[p] \in {"-", "_"} /\ matchesAt(s, p + 1, <<"k","e","y">>) THEN p + 4
                  ELSE IF matchesAt(s, p, <<"k","e","y">>) THEN p + 3
                  ELSE 0
             q == RunEnd(s, k, "nonletter")
             \* [^a-z]* gives characters back until \w+ can start
             back == {j \in k..(q - 1) : IsWordChar(s[j])}
         IN IF k = 0 THEN 0
            ELSE IF q <= Len(s) THEN RunEnd(s, q, "word")
            ELSE IF back # {} THEN RunEnd(s, CHOOSE j \in back : \A j2 \in back : j2 <= j, "word")
            ELSE 0

RECURSIVE replaceApiKeys(_, _)
\* message.replace(/api[-_]?key[^a-z]*\w+/gi, 'API_KEY_REDACTED'), from position i on
replaceApiKeys(s, i) ==
    IF i > Len(s) THEN <<>>
    ELSE IF apiKeyMatchEnd(s, i) # 0 THEN <<"A","P","I","_","K","E","Y","_","R","E","D","A","C","T","E","D">> \o replaceApiKeys(s, apiKeyMatchEnd(s, i))
    ELSE <<s[i]>> \o replaceApiKeys(s, i + 1)

RECURSIVE replaceBearerTokens(_, _)
\* .replace(/bearer\s+[^\s]+/gi, 'BEARER_TOKEN_REDACTED'), from position i on
replaceBearerTokens(s, i) ==
    IF i > Len(s) THEN <<>>
    ELSE IF bearerMatchEnd(s, i) # 0
    THEN <<"B","E","A","R","E","R","_","T","O","K","E","N","_","R","E","D","A","C","T","E","D">> \o replaceBearerTokens(s, bearerMatchEnd(s, i))
    ELSE <<s[i]>> \o replaceBearerTokens(s, i + 1)

\* /a\s*b/i occurs in s
matchesSpaced(s, a, b) ==
    \E i \in 1..Len(s) : matchesAt(s, i, a) /\ matchesAt(s, RunEnd(s, i + Len(a), "space"), b)

simplifyErrorMessage(message) ==
    LET sanitized == replaceBearerTokens(replaceApiKeys(message, 1), 1)
        lower == toLowerCase(sanitized)
    IN IF \/ includes(lower, <<"n","e","t","w","o","r","k">>) \/ includes(lower, <<"c","o","n","n","e","c","t","i","o","n">>)
          \/ includes(lower, <<"o","f","f","l","i","n","e">>) \/ includes(lower, <<"u","n","r","e","a","c","h","a","b","l","e">>)
       THEN <<"N","e","t","w","o","r","k"," ","c","o","n","n","e","c","t","i","o","n"," ","e","r","r","o","r","."," ","P","l","e","a","s","e"," ","c","h","e","c","k"," ","y","o","u","r"," ","i","n","t","e","r","n","e","t"," ","c","o","n","n","e","c","t","i","o","n",".">>
       ELSE IF includes(lower, <<"t","i","m","e","o","u","t">>) \/ includes(lower, <<"t","i","m","e","d"," ","o","u","t">>) \/ includes(lower, <<"t","i","m","e"," ","o","u","t">>)
       THEN <<"T","h","e"," ","r","e","q","u","e","s","t"," ","t","i","m","e","d"," ","o","u","t","."," ","P","l","e","a","s","e"," ","t","r","y"," ","a","g","a","i","n",".">>
       ELSE IF \/ matchesSpaced(sanitized, <<"r","a","t","e">>, <<"l","i","m","i","t">>)
               \/ \E i \in 1..Len(sanitized) :
                    /\ matchesAt(sanitized, i, <<"t","o","o">>)
                    /\ LET m == RunEnd(sanitized, i + 3, "space") IN
                       /\ matchesAt(sanitized, m, <<"m","a","n","y">>)
                       /\ matchesAt(sanitized, RunEnd(sanitized, m + 4, "space"), <<"r","e","q","u","e","s","t","s">>)
               \/ includes(lower, <<"4","2","9">>)
       THEN <<"R","a","t","e"," ","l","i","m","i","t"," ","e","x","c","e","e","d","e","d","."," ","P","l","e","a","s","e"," ","t","r","y"," ","a","g","a","i","n"," ","i","n"," ","a"," ","m","i","n","u","t","e",".">>
       ELSE IF \/ includes(lower, <<"a","u","t","h">>) \/ includes(lower, <<"u","n","a","u","t","h","o","r","i","z","e","d">>)
               \/ includes(lower, <<"f","o","r","b","i","d","d","e","n">>) \/ includes(lower, <<"a","p","i","k","e","y">>)
               \/ includes(lower, <<"a","p","i","-","k","e","y">>) \/ includes(lower, <<"a","p","i","_","k","e","y">>)
               \/ includes(lower, <<"4","0","1">>) \/ includes(lower, <<"4","0","3">>)
       THEN <<"A","u","t","h","e","n","t","i","c","a","t","i","o","n"," ","f","a","i","l","e","d","."," ","P","l","e","a","s","e"," ","c","h","e","c","k"," ","y","o","u","r"," ","A","P","I"," ","k","e","y",".">>
       ELSE sanitized

\* getUserFriendlyMessage applied to an instance of Error
getUserFriendlyMessageOfError(e) == simplifyErrorMessage(e.message.s)

----------------------------------------------------------------------------
(* Inputs of the classification *)

StatusCodes == {0, 200, 302, 400, 401, 403, 404, 422, 429, 499, 500, 503}

FieldValues == {Absent, Str} \cup {Num(n) : n \in StatusCodes}

Messages ==
    {<<>>, <<"b","o","o","m">>, <<"N","e","t","w","o","r","k"," ","d","o","w","n">>, <<"L","o","s","t"," ","C","O","N","N","E","C","T","I","O","N">>, <<"U","n","a","u","t","h","o","r","i","z","e","d">>, <<"I","n","v","a","l","i","d"," ","A","P","I"," ","K","e","y">>,
     <<"A","u","t","h","e","n","t","i","c","a","t","i","o","n"," ","s","e","r","v","e","r"," ","u","n","a","v","a","i","l","a","b","l","e">>, <<"r","a","t","e"," ","l","i","m","i","t"," ","h","i","t">>, <<"U","n","e","x","p","e","c","t","e","d"," ","s","e","r","v","e","r"," ","r","e","s","p","o","n","s","e">>,
     <<"U","p","s","t","r","e","a","m"," ","s","a","i","d",":"," ","B","e","a","r","e","r"," ","a","b","c","1","2","3"," ","e","x","p","i","r","e","d">>, <<"B","a","d"," ","a","p","i","_","k","e","y","=","s","k","1"," ","s","e","n","t">>}

FailureInputs ==
    \* instances of Error, possibly carrying a status field (e.g. thrown by an HTTP wrapper)
    {[kind |-> "error", status |-> st, statusCode |-> Absent, message |-> Msg(m), nested |-> NoMsg,
      retryable |-> FALSE] : st \in FieldValues, m \in Messages}
    \cup
    \* plain objects
    {[kind |-> "object", status |-> st, statusCode |-> sc, message |-> m, nested |-> NoMsg,
      retryable |-> FALSE] :
        st \in FieldValues, sc \in FieldValues, m \in {NoMsg, Msg(<<"b","o","o","m">>), Msg(<<"N","e","t","w","o","r","k"," ","d","o","w","n">>), Msg(<<"B","a","d"," ","a","p","i","_","k","e","y","=","s","k","1"," ","s","e","n","t">>)}}
    \cup
    {[kind |-> "object", status |-> st, statusCode |-> Absent, message |-> NoMsg, nested |-> Msg(<<"b","o","o","m">>),
      retryable |-> FALSE] : st \in FieldValues}
    \cup
    \* primitives, null, undefined
    {[kind |-> "other", status |-> Absent, statusCode |-> Absent, message |-> NoMsg, nested |-> NoMsg,
      retryable |-> FALSE]}

ErrIdle == failure = ErrorOf(<<>>) /\ appError = NoAppError

----------------------------------------------------------------------------
(* RateLimiterService.  Time is counted in ticks of 100 ms. *)

\* the 100 ms added to the window-expiry wait, in ticks
RecheckSlack == 1

NumCallers == 3
MaxTime == 5
MaxRequestsBound == 2
MaxWindowTicks == 4
MaxDelayTicks == 2

Callers == 1..NumCallers

\* effective configs (configs[provider] after updateConfig); delayMs = 0 stands for "not configured"
Configs ==
    [maxRequests : 1..MaxRequestsBound, windowMs : {MaxWindowTicks - 1, MaxWindowTicks},
     delayMs : {0, MaxDelayTicks}]

\* the config a caller that has not called yet is shown with
NoConfig == [maxRequests |-> 0, windowMs |-> 0, delayMs |-> 0]

\* per caller: position in checkRateLimit, due time of its timer, and (history) the time
\* of its call, the config in force at its call and the config its latest evaluation read
IdleCaller == [pc |-> "idle", wake |-> 0, arrivedAt |-> 0, started |-> NoConfig, used |-> NoConfig]

RlIdle ==
    /\ now = 0
    /\ isBrowser = TRUE
    /\ configs = [maxRequests |-> 1, windowMs |-> MaxWindowTicks, delayMs |-> 0]
    /\ requestTimestamps = <<>>
    /\ callers = [c \in Callers |-> IdleCaller]
    /\ admissions = <<>>
    /\ configUpdates = 0
    /\ requestLog = {}

\* no response and no failure: the value of lastError before any attempt failed
NoFailure == [has |-> FALSE, e |-> ErrorOf(<<>>)]
FailureOf(e) == [has |-> TRUE, e |-> e]

OkResponse == [ok |-> TRUE, failure |-> ErrorOf(<<>>)]
FailingWith(e) == [ok |-> FALSE, failure |-> e]

SigIdle ==
    /\ isProcessing = FALSE
    /\ error = NoMsg
    /\ progress = 0
    /\ summaryBullets = <<>>

PdfIdle ==
    /\ pdfPc = "idle"
    /\ retryCount = 0
    /\ pdfStarts = 0
    /\ pdfDelays = <<>>
    /\ unsubscribed = FALSE
    /\ cancelledAt = "none"
    /\ lastError = NoFailure
    /\ lastDecision = "none"
    /\ pdfEmitted = <<>>
    /\ pdfTerminal = "none"
    /\ remote = OkResponse
    /\ aiPc = "idle"
    /\ aiAttempts = 0
    /\ aiWaits = <<>>
    /\ httpPc = "none"

StStart ==
    /\ stPc = "idle"
    /\ bullets = <<>>
    /\ bulletIdx = 0
    /\ scanAcc = <<>>
    /\ snapshots = <<>>
    /\ isStreamingComplete = FALSE
    /\ currentBulletIndex = -1
    /\ currentBulletText = <<>>
    /\ streamedBullets = <<>>
    /\ destroyedAt = "none"
    /\ logged = {}
    /\ extractedText = "none"
    /\ postCount = 0
    /\ otherPc = "idle"
    /\ waitsBefore = <<>>
    /\ pendingWaits = <<>>

StIdle == StStart /\ remotePlan = <<OkResponse>>

RECURSIVE MaxOf(_)
\* Math.max(...timestamps) of a non-empty list
MaxOf(ts) ==
    IF Len(ts) = 1 THEN ts[1]
    ELSE LET m == MaxOf(Tail(ts)) IN IF ts[1] > m THEN ts[1] ELSE m

\* a filter that keeps every timestamp, expired ones included
PruneLedgerKeepingAll(ts, t, config) == ts

\* requestTimestamps[provider].filter(timestamp => now - timestamp < config.windowMs)
PruneLedger(ts, t, config) == SelectSeq(ts, LAMBDA x : t - x < config.windowMs)

\* a spacing wait after which the call neither pushes nor returns
AfterSpacingWaitNeverReturning(c) ==
    /\ callers[c].pc = "delayWait"
    /\ UNCHANGED <<requestTimestamps, admissions, callers>>

\* the spacing wait of checkRateLimit is followed by the push, with no second look at the ledger
AfterSpacingWait(c) ==
    /\ requestTimestamps' = Append(requestTimestamps, now)
    /\ admissions' = Append(admissions, now)
    /\ callers' = [callers EXCEPT ![c].pc = "done", ![c].wake = 0]

\* the caller's record once its call has started
Entered(c) ==
    IF callers[c].pc = "idle"
    THEN [callers[c] EXCEPT !.arrivedAt = now, !.started = configs, !.used = configs]
    ELSE callers[c]

\* the synchronous part of checkRateLimit, from its entry to its first await or to its return
checkRateLimit(c) ==
    IF ~isBrowser
    THEN /\ callers' = [callers EXCEPT ![c] = [Entered(c) EXCEPT !.pc = "done", !.wake = 0]]
         /\ UNCHANGED <<requestTimestamps, admissions>>
    ELSE LET config == configs
             self == [Entered(c) EXCEPT !.used = config]
             pruned == PruneLedger(requestTimestamps, now, config)
         IN IF Len(pruned) >= config.maxRequests
            THEN \* wait until the oldest timestamp leaves the window, then call checkRateLimit again
                 \* (with an empty ledger the wait time is NaN and the timer is due at once)
                 /\ requestTimestamps' = pruned
                 /\ callers' = [callers EXCEPT ![c] =
                        [self EXCEPT !.pc = "windowWait",
                                     !.wake = IF pruned = <<>> THEN now
                                              ELSE pruned[1] + config.windowMs + RecheckSlack]]
                 /\ UNCHANGED admissions
            ELSE IF config.delayMs # 0 /\ Len(pruned) > 0 /\ now - MaxOf(pruned) < config.delayMs
            THEN /\ requestTimestamps' = pruned
                 /\ callers' = [callers EXCEPT ![c] =
                        [self EXCEPT !.pc = "delayWait", !.wake = MaxOf(pruned) + config.delayMs]]
                 /\ UNCHANGED admissions
            ELSE /\ requestTimestamps' = Append(pruned, now)
                 /\ admissions' = Append(admissions, now)
                 /\ callers' = [callers EXCEPT ![c] = [self EXCEPT !.pc = "done", !.wake = 0]]

\* a caller enters checkRateLimit(provider)
CallCheckRateLimit(c) ==
    /\ callers[c].pc = "idle"
    /\ checkRateLimit(c)
    /\ UNCHANGED <<now, isBrowser, configs, configUpdates, requestLog, errVars, sigVars, pdfVars, stVars>>

\* the timer of line 90 fires: "return this.checkRateLimit(provider)"
WindowWaitElapsed(c) ==
    /\ callers[c].pc = "windowWait"
    /\ now >= callers[c].wake
    /\ checkRateLimit(c)
    /\ UNCHANGED <<now, isBrowser, configs, configUpdates, requestLog, errVars, sigVars, pdfVars, stVars>>

\* the timer of line 103 fires: execution continues at line 108
SpacingWaitElapsed(c) ==
    /\ callers[c].pc = "delayWait"
    /\ now >= callers[c].wake
    /\ AfterSpacingWait(c)
    /\ UNCHANGED <<now, isBrowser, configs, configUpdates, requestLog, errVars, sigVars, pdfVars, stVars>>

\* the clock advances; timers fire at or after their due time
Tick ==
    /\ now < MaxTime
    /\ now' = now + 1
    /\ UNCHANGED <<isBrowser, configs, requestTimestamps, callers, admissions, configUpdates, requestLog, errVars,
                   sigVars, pdfVars, stVars>>

\* a registerRequest that records the request in the ledger
registerRequestPushing(success) ==
    /\ requestLog' = IF isBrowser THEN requestLog \cup {"api_request_complete"} ELSE requestLog
    /\ requestTimestamps' = IF isBrowser THEN Append(requestTimestamps, now) ELSE requestTimestamps
    /\ UNCHANGED <<now, isBrowser, configs, callers, admissions, configUpdates, errVars, sigVars,
                   pdfVars, stVars>>

\* registerRequest(provider, success): logs 'api_request_complete' in the browser, nothing else
registerRequest(success) ==
    /\ requestLog' = IF isBrowser THEN requestLog \cup {"api_request_complete"} ELSE requestLog
    /\ UNCHANGED <<now, isBrowser, configs, requestTimestamps, callers, admissions, configUpdates,
                   errVars, sigVars, pdfVars, stVars>>

RlInit ==
    /\ now = 0
    /\ isBrowser \in BOOLEAN
    /\ configs \in Configs
    /\ requestTimestamps = <<>>
    /\ callers = [c \in Callers |-> IdleCaller]
    /\ admissions = <<>>
    /\ configUpdates = 0
    /\ requestLog = {}
    /\ ErrIdle
    /\ SigIdle
    /\ PdfIdle
    /\ StIdle

RlNext ==
    \/ \E c \in Callers : CallCheckRateLimit(c)
    \/ \E c \in Callers : WindowWaitElapsed(c)
    \/ \E c \in Callers : SpacingWaitElapsed(c)
    \/ \E success \in BOOLEAN : registerRequest(success)
    \/ Tick

SpecRL == RlInit /\ [][RlNext]_vars

\* the clock of a run in which time does not stop: past MaxTime it advances as long as
\* the timer of some suspended call is not due yet
TickLive ==
    /\ \/ now < MaxTime
       \/ \E c \in Callers : callers[c].pc \in {"windowWait", "delayWait"} /\ callers[c].wake > now
    /\ now' = now + 1
    /\ UNCHANGED <<isBrowser, configs, requestTimestamps, callers, admissions, configUpdates, requestLog,
                   errVars, sigVars, pdfVars, stVars>>

RlLiveNext ==
    \/ \E c \in Callers : CallCheckRateLimit(c)
    \/ \E c \in Callers : WindowWaitElapsed(c)
    \/ \E c \in Callers : SpacingWaitElapsed(c)
    \/ TickLive

\* the rate limiter under advancing time: the clock runs and every due timer fires
SpecRLLive ==
    /\ RlInit
    /\ [][RlLiveNext]_vars
    /\ WF_vars(TickLive)
    /\ \A c \in Callers : WF_vars(WindowWaitElapsed(c)) /\ WF_vars(SpacingWaitElapsed(c))

\* bound on the calls of updateConfig explored
MaxConfigUpdates == 1

\* Partial<RateLimitConfig>: the fields present, and their values
ConfigOverrides ==
    {[fields |-> {"maxRequests"}, value |-> [maxRequests |-> 0, windowMs |-> 0, delayMs |-> 0]],
     [fields |-> {"maxRequests"}, value |-> [maxRequests |-> MaxRequestsBound, windowMs |-> 0, delayMs |-> 0]],
     [fields |-> {"windowMs"}, value |-> [maxRequests |-> 0, windowMs |-> MaxWindowTicks - 1, delayMs |-> 0]],
     [fields |-> {"maxRequests", "delayMs"},
      value |-> [maxRequests |-> 1, windowMs |-> 0, delayMs |-> MaxDelayTicks]],
     [fields |-> {}, value |-> [maxRequests |-> 0, windowMs |-> 0, delayMs |-> 0]]}

\* { ...(this.configs[provider] || this.configs['default']), ...config }
mergeConfig(config, partial) ==
    [f \in DOMAIN config |-> IF f \in partial.fields THEN partial.value[f] ELSE config[f]]

updateConfig(partial) ==
    /\ configUpdates < MaxConfigUpdates
    /\ configs' = mergeConfig(configs, partial)
    /\ configUpdates' = configUpdates + 1
    /\ UNCHANGED <<now, isBrowser, requestTimestamps, callers, admissions, requestLog, errVars, sigVars,
                   pdfVars, stVars>>

RlConfigNext ==
    \/ RlNext
    \/ \E partial \in ConfigOverrides : updateConfig(partial)

\* the rate limiter with updateConfig called at any time
SpecRLConfig == RlInit /\ [][RlConfigNext]_vars

\* number of recorded admissions in the interval [t, t + w)
AdmissionsIn(t, w) == Cardinality({i \in 1..Len(admissions) : admissions[i] >= t /\ admissions[i] < t + w})

\* C1: for a provider with maxRequests = N and windowMs = W, no sliding interval of
\* length W contains more than N recorded admissions, whatever the interleaving of callers
C1_WindowLimit ==
    \A i \in 1..Len(admissions) : AdmissionsIn(admissions[i], configs.windowMs) <= configs.maxRequests

\* C23: with an effective maxRequests below 1, checkRateLimit fails fast with a
\* configuration error: the call neither admits the request nor waits or loops
C23_FailsFastOnBadConfig ==
    \A c \in Callers :
        (callers[c].pc # "idle" /\ isBrowser /\ callers[c].used.maxRequests < 1)
        => callers[c].pc = "rejected"

\* the caller is suspended inside checkRateLimit
Waiting(c) == callers[c].pc \in {"windowWait", "delayWait"}

\* the caller was admitted: its timestamp was appended
Admitted(c) == callers[c].pc = "done" /\ isBrowser

\* C24: a request that arrived later is not admitted before a request that arrived
\* earlier and is still waiting
C24_NoOvertaking ==
    \A c, d \in Callers :
        (Waiting(c) /\ Admitted(d)) => callers[d].arrivedAt <= callers[c].arrivedAt

\* C27: with delayMs configured, any two consecutive admissions recorded in
\* requestTimestamps are at least delayMs apart
C27_MinimumSpacing ==
    configs.delayMs # 0
    => \A i \in 1..(Len(requestTimestamps) - 1) :
            requestTimestamps[i + 1] - requestTimestamps[i] >= configs.delayMs

\* the admission conditions, evaluated against the ledger ts at time t
AdmissionConditions(ts, t, config) ==
    LET current == SelectSeq(ts, LAMBDA x : t - x < config.windowMs) IN
    /\ Len(current) < config.maxRequests
    /\ (config.delayMs # 0 => \A i \in 1..Len(current) : t - current[i] >= config.delayMs)

\* C28: after every suspension inside checkRateLimit, the call appends its timestamp
\* only if the admission conditions hold against the ledger as it is then
C28_RecheckAfterSuspension ==
    [][\A c \in Callers :
        (Waiting(c) /\ callers'[c].pc = "done")
        => AdmissionConditions(requestTimestamps, now, configs)]_vars

\* C29: a checkRateLimit call that is in progress when updateConfig runs finishes under
\* the config it started with
C29_InProgressKeepsConfig ==
    \A c \in Callers : callers[c].pc # "idle" => callers[c].used = callers[c].started

\* a call of checkRateLimit evaluated the ledger in this step: at its entry or after
\* its window-expiry wait
EvaluationStep ==
    \E c \in Callers : callers[c].pc \in {"idle", "windowWait"} /\ callers'[c] # callers[c]

\* C30: requestTimestamps is non-decreasing; right after the pruning of a call at time
\* now it holds only timestamps t with now - t < windowMs; entries leave it only by
\* pruning (out of the window) and enter it only as the admission appended at now
C30_LedgerOrderedAndPruned ==
    /\ [](\A i \in 1..(Len(requestTimestamps) - 1) : requestTimestamps[i] <= requestTimestamps[i + 1])
    /\ [][(EvaluationStep /\ isBrowser)
            => \A k \in 1..Len(requestTimestamps') : now - requestTimestamps'[k] < configs.windowMs]_vars
    /\ [][LET kept == SelectSeq(requestTimestamps, LAMBDA x : now - x < configs.windowMs) IN
          requestTimestamps' \in {requestTimestamps, kept, Append(requestTimestamps, now),
                                  Append(kept, now)}]_vars

\* a ledger from which an expired timestamp was pruned while another one was kept
C30_Witness ==
    /\ Len(admissions) >= 3
    /\ Len(requestTimestamps) >= 1
    /\ Len(requestTimestamps) < Len(admissions)
    /\ \E c \in Callers : callers[c].pc = "done"

\* C35: under a valid config, advancing time and finitely many callers, every
\* checkRateLimit call eventually resolves
C35_EveryCallResolves ==
    \A c \in Callers : (callers[c].pc # "idle") ~> (callers[c].pc = "done")

\* a call that had to wait for the window twice was admitted
C35_Witness ==
    /\ isBrowser
    /\ \A c \in Callers : callers[c].pc = "done"
    /\ Len(admissions) = NumCallers
    /\ \E i \in 1..(Len(admissions) - 1) : admissions[i + 1] - admissions[i] > configs.windowMs

\* C38: off the browser checkRateLimit resolves at once and leaves requestTimestamps and
\* configs as they are; registerRequest never changes requestTimestamps on any platform
C38_ServerSkipAndRegisterFrame ==
    [][/\ ~isBrowser
          => /\ requestTimestamps' = requestTimestamps
             /\ configs' = configs
             /\ \A c \in Callers :
                    (callers[c].pc = "idle" /\ callers'[c] # callers[c]) => callers'[c].pc = "done"
       /\ requestLog' # requestLog => requestTimestamps' = requestTimestamps]_vars

\* off the browser every caller resolved and nothing was recorded
C38_Witness ==
    /\ ~isBrowser
    /\ \A c \in Callers : callers[c].pc = "done"
    /\ requestTimestamps = <<>>
    /\ admissions = <<>>

----------------------------------------------------------------------------
(* Specification of the classification: one input, one call *)

ClassifyInit ==
    /\ failure \in FailureInputs
    /\ appError = NoAppError
    /\ RlIdle
    /\ SigIdle
    /\ PdfIdle
    /\ StIdle

Classify ==
    /\ ~appError.has
    /\ appError' = handleApiError(failure)
    /\ UNCHANGED <<failure, rlVars, sigVars, pdfVars, stVars>>

ClassifyNext == Classify

SpecClassify == ClassifyInit /\ [][ClassifyNext]_vars

\* the failure exposes a numeric status or statusCode
ExposesNumericStatus(f) == f.status.t = "num" \/ f.statusCode.t = "num"

\* the numeric status it exposes: status, or statusCode when status is not a number
ExposedStatus(f) == IF f.status.t = "num" THEN f.status.n ELSE f.statusCode.n

\* the table of the status rule
StatusRuleCategory(n) ==
    IF n = 401 \/ n = 403 THEN ErrorCategory.AUTHENTICATION
    ELSE IF n = 422 THEN ErrorCategory.VALIDATION
    ELSE IF n = 429 THEN ErrorCategory.RATE_LIMIT
    ELSE IF n >= 400 /\ n < 500 THEN ErrorCategory.CLIENT
    ELSE IF n >= 500 THEN ErrorCategory.SERVER
    ELSE "unspecified"

StatusRuleRetryable(n) == n = 429 \/ n >= 500

\* C9: every failure that exposes a numeric status or statusCode is classified by the
\* status table: 401/403 authentication, 422 validation, 429 rate_limit (retryable),
\* other 4xx client, >= 500 server (retryable)
C9_StatusMapping ==
    (appError.has /\ ExposesNumericStatus(failure)
        /\ StatusRuleCategory(ExposedStatus(failure)) # "unspecified")
    => /\ appError.category = StatusRuleCategory(ExposedStatus(failure))
       /\ appError.retryable = StatusRuleRetryable(ExposedStatus(failure))

\* C10: a failure that exposes both a numeric status and a textual message (an Error
\* instance with a status field included) is classified by the status, not by the text
C10_StatusBeforeMessage ==
    (appError.has /\ ExposesNumericStatus(failure)
        /\ failure.message.has /\ failure.message.s # <<>>
        /\ StatusRuleCategory(ExposedStatus(failure)) # "unspecified")
    => appError.category = StatusRuleCategory(ExposedStatus(failure))

\* the failure exposes no numeric status but a non-empty textual message
ExposesOnlyMessage(f) ==
    ~ExposesNumericStatus(f) /\ f.message.has /\ f.message.s # <<>>

\* the table of the message rule, applied to the lower-cased message
MessageRuleCategory(s) ==
    LET lower == toLowerCase(s) IN
    IF includes(lower, <<"n","e","t","w","o","r","k">>) \/ includes(lower, <<"c","o","n","n","e","c","t","i","o","n">>) THEN ErrorCategory.NETWORK
    ELSE IF includes(lower, <<"a","u","t","h">>) \/ includes(lower, <<"u","n","a","u","t","h","o","r","i","z","e","d">>) \/ includes(lower, <<"a","p","i"," ","k","e","y">>)
    THEN ErrorCategory.AUTHENTICATION
    ELSE IF includes(lower, <<"r","a","t","e"," ","l","i","m","i","t">>) THEN ErrorCategory.RATE_LIMIT
    ELSE ErrorCategory.CLIENT

MessageRuleRetryable(s) ==
    MessageRuleCategory(s) \in {ErrorCategory.NETWORK, ErrorCategory.RATE_LIMIT}

\* C11: a failure that exposes no numeric status but a textual message, Error instance or
\* plain object, is classified by its message, case-insensitively: network/connection ->
\* network (retryable), auth/unauthorized/api key -> authentication, rate limit ->
\* rate_limit (retryable), anything else -> client
C11_MessageMapping ==
    (appError.has /\ ExposesOnlyMessage(failure))
    => /\ appError.category = MessageRuleCategory(failure.message.s)
       /\ appError.retryable = MessageRuleRetryable(failure.message.s)

\* C12: every AppError handleApiError returns is retryable if and only if its category
\* is network, rate_limit or server
C12_RetryableIffCategory ==
    appError.has
    => (appError.retryable
        <=> appError.category \in
                {ErrorCategory.NETWORK, ErrorCategory.RATE_LIMIT, ErrorCategory.SERVER})

\* a response with status 429 was classified: retryable, in the rate_limit category
C12_Witness ==
    /\ appError.has
    /\ failure.kind = "object"
    /\ appError.retryable
    /\ appError.category = ErrorCategory.RATE_LIMIT
    /\ appError.statusCode = Num(429)

\* the text holds a credential-like substring: an API-key pattern or a bearer token
HasCredential(s) ==
    \E i \in 1..Len(s) : apiKeyMatchEnd(s, i) # 0 \/ bearerMatchEnd(s, i) # 0

\* C13: the message of the AppError handleApiError returns holds no credential-like
\* substring (API-key pattern, bearer token) of the raw failure's message
C13_MessageRedacted ==
    (appError.has /\ failure.message.has /\ HasCredential(failure.message.s))
    => ~HasCredential(appError.message)

\* C37: for a response-like failure the statusCode of the AppError is the numeric status
\* the failure exposed (statusCode when status is absent), and a status below 400
\* (0, 200, 302) is not classified as server and not marked retryable
C37_StatusCodePreserved ==
    (appError.has /\ failure.kind = "object" /\ ExposesNumericStatus(failure))
    => /\ appError.statusCode = Num(ExposedStatus(failure))
       /\ (ExposedStatus(failure) < 400
            => (appError.category # ErrorCategory.SERVER /\ ~appError.retryable))

----------------------------------------------------------------------------
(* AiService.generateSummary, retry revision *)

\* MAX_RETRIES of AiService
AI_MAX_RETRIES == 2

\* what the promise of callClaudeApi settles with.  The async function subscribes to
\* the POST and returns nothing: its promise resolves with undefined whatever the
\* POST does later (the subscribe callbacks only log).
callClaudeApi(r) ==
    [ok |-> TRUE, undefined |-> TRUE, summary |-> <<>>, error |-> ErrorOf(<<>>), waits |-> <<>>]

\* the delay callback of retry: rethrows a non-retryable error, else waits 2^(retryCount-1) s
retryDelay(e, count) ==
    IF ~handleApiError(e).retryable THEN [retry |-> FALSE, delayMs |-> 0]
    ELSE [retry |-> TRUE, delayMs |-> (2 ^ (count - 1)) * 1000]

RECURSIVE retry(_, _, _)
\* retry({count, delay}) over from(promise): every resubscription sees the same settled promise
retry(source, soFar, waits) ==
    IF source.ok THEN [source EXCEPT !.waits = waits]
    ELSE IF soFar >= AI_MAX_RETRIES THEN [source EXCEPT !.waits = waits]
    ELSE LET d == retryDelay(source.error, soFar + 1) IN
         IF ~d.retry THEN [source EXCEPT !.waits = waits]
         ELSE retry(source, soFar + 1, Append(waits, d.delayMs))

\* from(callClaudeApi(..)).pipe(timeout, retry, map(response => response.summary), catchError)
generateSummary(r) ==
    LET retried == retry(callClaudeApi(r), 0, <<>>)
        mapped ==
            IF retried.ok /\ retried.undefined
            THEN [retried EXCEPT !.ok = FALSE,
                    !.error = ErrorOf(<<"C","a","n","n","o","t"," ","r","e","a","d"," ","p","r","o","p","e","r","t","i","e","s"," ","o","f"," ","u","n","d","e","f","i","n","e","d"," ","(","r","e","a","d","i","n","g"," ","'","s","u","m","m","a","r","y","'",")">>)]
            ELSE retried
    IN IF mapped.ok THEN mapped
       ELSE [mapped EXCEPT !.error = ErrorOf(getUserFriendlyMessage(handleApiError(mapped.error)))]

----------------------------------------------------------------------------
(* SummarizationService.processPdf, Observable revision *)

MAX_RETRIES == 2

\* MAX_FILE_SIZE, in MB
MAX_FILE_SIZE == 10

\* bound on the pipeline starts explored
MaxStarts == 5

Files == [present : BOOLEAN, sizeMB : {1, MAX_FILE_SIZE + 1}, pdf : BOOLEAN]

validateFile(file) ==
    IF ~file.present THEN [ok |-> FALSE, message |-> <<"N","o"," ","f","i","l","e"," ","p","r","o","v","i","d","e","d">>]
    ELSE IF file.sizeMB > MAX_FILE_SIZE
    THEN [ok |-> FALSE,
          message |-> <<"F","i","l","e"," ","i","s"," ","t","o","o"," ","l","a","r","g","e"," ","(">> \o NumText(file.sizeMB) \o <<".","0","0","M","B",")","."," ","M","a","x","i","m","u","m"," ","s","i","z","e"," ","i","s"," ">>
                      \o NumText(MAX_FILE_SIZE) \o <<"M","B",".">>]
    ELSE IF ~file.pdf THEN [ok |-> FALSE, message |-> <<"O","n","l","y"," ","P","D","F"," ","f","i","l","e","s"," ","a","r","e"," ","s","u","p","p","o","r","t","e","d",".">>]
    ELSE [ok |-> TRUE, message |-> <<>>]

\* messages of the errors extractTextFromPdf fails with (Error instances)
ExtractionMessages ==
    {<<"I","n","v","a","l","i","d"," ","P","D","F"," ","s","t","r","u","c","t","u","r","e">>, <<"N","e","t","w","o","r","k"," ","d","o","w","n">>, <<"L","o","s","t"," ","C","O","N","N","E","C","T","I","O","N">>, <<"r","a","t","e"," ","l","i","m","i","t"," ","h","i","t">>,
     <<"U","n","e","x","p","e","c","t","e","d"," ","s","e","r","v","e","r"," ","r","e","s","p","o","n","s","e">>, <<"A","u","t","h","e","n","t","i","c","a","t","i","o","n"," ","s","e","r","v","e","r"," ","u","n","a","v","a","i","l","a","b","l","e">>}

ExtractionOutcomes ==
    {[kind |-> "text", empty |-> b, error |-> ErrorOf(<<>>)] : b \in BOOLEAN}
    \cup {[kind |-> "error", empty |-> FALSE, error |-> ErrorOf(m)] : m \in ExtractionMessages}

\* how the POST to /api/summary answers
RemoteBehaviours ==
    {OkResponse}
    \cup {FailingWith([kind |-> "object", status |-> Num(n), statusCode |-> Absent, message |-> NoMsg,
                       nested |-> NoMsg, retryable |-> FALSE]) : n \in {401, 429, 503}}
    \cup {FailingWith(ErrorOf(<<"N","e","t","w","o","r","k"," ","d","o","w","n">>))}

\* the test of catchError: may this error be retried?
isRetryable(e) ==
    \/ (e.kind = "error" /\ includes(toLowerCase(e.message.s), <<"n","e","t","w","o","r","k">>))
    \/ (e.kind = "error" /\ includes(toLowerCase(e.message.s), <<"r","a","t","e"," ","l","i","m","i","t">>))
    \/ (e.kind = "error" /\ includes(toLowerCase(e.message.s), <<"s","e","r","v","e","r">>))
    \/ (e.kind = "object" /\ e.retryable)

\* error instanceof Error ? error.message : getUserFriendlyMessage(error)
userMessageOf(e) ==
    IF e.kind = "error" THEN e.message.s ELSE <<"A","n"," ","u","n","e","x","p","e","c","t","e","d"," ","e","r","r","o","r"," ","o","c","c","u","r","r","e","d","."," ","P","l","e","a","s","e"," ","t","r","y"," ","a","g","a","i","n",".">>

\* delayMs = Math.pow(2, retryCount) * 1000, retryCount already incremented
backoffDelay(count) == (2 ^ count) * 1000

\* the body of catchError, with the finalize that follows a completion
catchError(e) ==
    /\ lastError' = FailureOf(e)
    /\ IF retryCount < MAX_RETRIES /\ isRetryable(e)
       THEN /\ retryCount' = retryCount + 1
            /\ pdfDelays' = Append(pdfDelays, backoffDelay(retryCount + 1))
            /\ error' = Msg(<<"R","e","t","r","y","i","n","g"," ","(">> \o NumText(retryCount + 1) \o <<"/">> \o NumText(MAX_RETRIES) \o <<")",".",".",".">>)
            /\ lastDecision' = "retry"
            /\ pdfPc' = "backoff"
            /\ UNCHANGED <<isProcessing, pdfEmitted, pdfTerminal>>
       ELSE /\ error' = Msg(userMessageOf(e))
            /\ lastDecision' = "fail"
            /\ pdfEmitted' = IF unsubscribed THEN pdfEmitted ELSE Append(pdfEmitted, <<>>)
            /\ pdfTerminal' = IF unsubscribed THEN pdfTerminal ELSE "complete"
            /\ isProcessing' = FALSE
            /\ pdfPc' = "done"
            /\ UNCHANGED <<retryCount, pdfDelays>>

\* the caller calls processPdf(file) and subscribes to what it returns
CallProcessPdf(file) ==
    /\ pdfPc = "idle"
    /\ progress' = 0
    /\ summaryBullets' = <<>>
    /\ IF ~validateFile(file).ok
       THEN /\ error' = Msg(validateFile(file).message)
            /\ isProcessing' = FALSE
            /\ pdfEmitted' = Append(pdfEmitted, <<>>)
            /\ pdfTerminal' = "complete"
            /\ pdfPc' = "done"
            /\ UNCHANGED <<retryCount, pdfStarts>>
       ELSE /\ error' = NoMsg
            /\ isProcessing' = TRUE
            /\ retryCount' = 0
            /\ pdfStarts' = pdfStarts + 1
            /\ pdfPc' = "extracting"
            /\ UNCHANGED <<pdfEmitted, pdfTerminal>>
    /\ UNCHANGED <<pdfDelays, unsubscribed, cancelledAt, lastError, lastDecision, remote, aiPc,
                   aiAttempts, aiWaits, httpPc, errVars, rlVars, stVars>>

\* extractTextFromPdf emits its text or fails: the switchMap body, or catchError
ExtractionAnswers(outcome) ==
    /\ pdfPc = "extracting"
    /\ aiPc # "pending"
    /\ IF outcome.kind = "text" /\ ~outcome.empty
       THEN \* generateSummary is called: callClaudeApi posts once and its promise is pending
            /\ progress' = 50
            /\ aiPc' = "pending"
            /\ aiAttempts' = 1
            /\ aiWaits' = <<>>
            /\ httpPc' = "inflight"
            /\ pdfPc' = "summarizing"
            /\ UNCHANGED <<isProcessing, error, retryCount, pdfDelays, lastError, lastDecision,
                           pdfEmitted, pdfTerminal>>
       ELSE /\ catchError(IF outcome.kind = "text"
                          THEN ErrorOf(<<"N","o"," ","t","e","x","t"," ","c","o","u","l","d"," ","b","e"," ","e","x","t","r","a","c","t","e","d"," ","f","r","o","m"," ","t","h","e"," ","P","D","F">>)
                          ELSE outcome.error)
            /\ UNCHANGED <<progress, aiPc, aiAttempts, aiWaits, httpPc>>
    /\ UNCHANGED <<summaryBullets, pdfStarts, unsubscribed, cancelledAt, remote, errVars, rlVars, stVars>>

\* the promise of callClaudeApi settles (a microtask): the rest of the generateSummary
\* pipe runs, then map or catchError of processPdf
SummarySettles ==
    /\ aiPc = "pending"
    /\ LET out == generateSummary(remote) IN
       /\ aiWaits' = out.waits
       /\ IF out.ok
          THEN /\ aiPc' = "succeeded"
               /\ summaryBullets' = out.summary
               /\ progress' = 100
               /\ pdfEmitted' = IF unsubscribed THEN pdfEmitted ELSE Append(pdfEmitted, out.summary)
               /\ pdfTerminal' = IF unsubscribed THEN pdfTerminal ELSE "complete"
               /\ isProcessing' = FALSE
               /\ pdfPc' = "done"
               /\ UNCHANGED <<error, retryCount, pdfDelays, lastError, lastDecision>>
          ELSE /\ aiPc' = "failed"
               /\ catchError(out.error)
               /\ UNCHANGED <<progress, summaryBullets>>
    /\ UNCHANGED <<pdfStarts, unsubscribed, cancelledAt, remote, aiAttempts, httpPc,
                   errVars, rlVars, stVars>>

\* the POST answers: the subscribe callbacks of callClaudeApi log and return
HttpAnswers ==
    /\ httpPc = "inflight"
    /\ aiPc # "pending"
    /\ httpPc' = "answered"
    /\ UNCHANGED <<sigVars, pdfPc, retryCount, pdfStarts, pdfDelays, unsubscribed, cancelledAt,
                   lastError, lastDecision, pdfEmitted, pdfTerminal, remote, aiPc, aiAttempts,
                   aiWaits, errVars, rlVars, stVars>>

\* the setTimeout callback of the retry: error.set(null), then processPdf(file).subscribe(..).
\* The timer has no teardown, so it does not depend on the caller's subscription.
RetryTimerFires ==
    /\ pdfPc = "backoff"
    /\ pdfStarts < MaxStarts
    /\ isProcessing' = TRUE
    /\ error' = NoMsg
    /\ progress' = 0
    /\ summaryBullets' = <<>>
    /\ retryCount' = 0
    /\ pdfStarts' = pdfStarts + 1
    /\ pdfPc' = "extracting"
    /\ UNCHANGED <<pdfDelays, unsubscribed, cancelledAt, lastError, lastDecision, pdfEmitted,
                   pdfTerminal, remote, aiPc, aiAttempts, aiWaits, httpPc, errVars, rlVars, stVars>>

\* the caller unsubscribes: finalize runs, and the operators of the top-level pipe stop
Unsubscribe ==
    /\ ~unsubscribed
    /\ pdfTerminal = "none"
    /\ pdfPc \in {"extracting", "backoff"}
    /\ aiPc # "pending"
    /\ unsubscribed' = TRUE
    /\ cancelledAt' = pdfPc
    /\ isProcessing' = FALSE
    /\ pdfPc' = IF pdfPc = "extracting" /\ pdfStarts = 1 THEN "cancelled" ELSE pdfPc
    /\ UNCHANGED <<error, progress, summaryBullets, retryCount, pdfStarts, pdfDelays, lastError,
                   lastDecision, pdfEmitted, pdfTerminal, remote, aiPc, aiAttempts, aiWaits, httpPc,
                   errVars, rlVars, stVars>>

PdfInit ==
    /\ SigIdle
    /\ pdfPc = "idle"
    /\ retryCount = 0
    /\ pdfStarts = 0
    /\ pdfDelays = <<>>
    /\ unsubscribed = FALSE
    /\ cancelledAt = "none"
    /\ lastError = NoFailure
    /\ lastDecision = "none"
    /\ pdfEmitted = <<>>
    /\ pdfTerminal = "none"
    /\ remote \in RemoteBehaviours
    /\ aiPc = "idle"
    /\ aiAttempts = 0
    /\ aiWaits = <<>>
    /\ httpPc = "none"
    /\ ErrIdle
    /\ RlIdle
    /\ StIdle

PdfNext ==
    \/ \E file \in Files : CallProcessPdf(file)
    \/ \E outcome \in ExtractionOutcomes : ExtractionAnswers(outcome)
    \/ SummarySettles
    \/ HttpAnswers
    \/ RetryTimerFires
    \/ Unsubscribe

SpecPdf == PdfInit /\ [][PdfNext]_vars

\* C2: one top-level processPdf call starts the extraction+summary pipeline at most
\* MAX_RETRIES + 1 = 3 times, re-invocations by the retry timer included
C2_AtMostThreeStarts == pdfStarts <= MAX_RETRIES + 1

\* C3: on a remote call that always fails with a retryable error, generateSummary makes
\* exactly 3 attempts of the remote call, waits 1000 ms then 2000 ms, and settles failed
C3_ThreeAttemptsWithBackoff ==
    (aiPc \in {"failed", "succeeded"} /\ ~remote.ok /\ handleApiError(remote.failure).retryable)
    => (aiPc = "failed" /\ aiAttempts = AI_MAX_RETRIES + 1 /\ aiWaits = <<1000, 2000>>)

\* C4: an attempt that fails with an error handleApiError classifies as non-retryable is
\* the last one: no backoff wait is scheduled and the operation settles as failed at once
C4_NonRetryableFailsAtOnce ==
    /\ (lastError.has /\ ~handleApiError(lastError.e).retryable)
       => (lastDecision = "fail" /\ pdfPc = "done" /\ error.has)
    /\ (aiPc \in {"failed", "succeeded"} /\ ~remote.ok /\ ~handleApiError(remote.failure).retryable)
       => (aiPc = "failed" /\ aiAttempts = 1 /\ aiWaits = <<>>)

\* C5: within one top-level processPdf call the backoff delays strictly increase
C5_DelaysIncrease ==
    \A i \in 1..(Len(pdfDelays) - 1) : pdfDelays[i] < pdfDelays[i + 1]

\* C6: once the caller has unsubscribed while a retry timer is pending, processPdf is
\* not invoked again and none of the four signals changes
C6_NoAttemptAfterCancel ==
    [][cancelledAt = "backoff" => (pdfStarts' = pdfStarts /\ sigVars' = sigVars)]_vars

\* C14: when processPdf ends in failure, the error signal holds the message
\* getUserFriendlyMessage produces for the cause, never the raw message of the cause
C14_OnlyFriendlyMessage ==
    (lastDecision = "fail" /\ pdfPc = "done" /\ lastError.has /\ lastError.e.kind = "error")
    => error = Msg(getUserFriendlyMessageOfError(lastError.e))

\* C36: an invocation that set isProcessing to true has set it back to false at every
\* terminal outcome, and isProcessing is not false while a retry of it is still pending
C36_ProcessingFlagFollowsInvocation ==
    /\ pdfPc \in {"done", "cancelled"} => ~isProcessing
    /\ pdfPc = "backoff" => isProcessing

\* C26: when the remote call failed and the operation ends in failure (retries exhausted
\* or the failure non-retryable), the caller's subscription gets an error notification
\* and no value: no empty summary list is delivered as a result
C26_FailureIsNotAValue ==
    (lastDecision = "fail" /\ pdfPc = "done" /\ aiPc = "failed" /\ ~remote.ok /\ ~unsubscribed)
    => (pdfTerminal = "error" /\ pdfEmitted = <<>>)

----------------------------------------------------------------------------
(* AiService.generateStreamingSummary and SummarizationService.processStreamingPdf *)

\* what POST /api/summary can answer with: response.result.summary
BulletLists ==
    {<<>>, <<<<"A">>>>, <<<<"A">>, <<"B","C">>>>, <<<<>>, <<"B">>>>, <<<<"A","B">>, <<>>>>, <<<<"A","B">>, <<"C">>, <<"D">>>>, <<<<>>>>}

\* firstValueFrom(extractTextFromPdf(file)): an object with a text property, a string,
\* either of them with an empty or a non-empty text, or a rejection
StreamExtractionOutcomes ==
    {[kind |-> k, empty |-> b, error |-> ErrorOf(<<>>)] : k \in {"object", "string"}, b \in BOOLEAN}
    \cup {[kind |-> "error", empty |-> FALSE, error |-> ErrorOf(m)] :
            m \in {<<"I","n","v","a","l","i","d"," ","P","D","F"," ","s","t","r","u","c","t","u","r","e">>, <<"N","e","t","w","o","r","k"," ","d","o","w","n">>}}

\* a map that shows the bullets still to come instead of empty strings
PartialSnapshotShowingFuture(bs, i, partialText) ==
    [isComplete |-> FALSE,
     bulletPoints |-> [j \in 1..Len(bs) |-> IF j = i THEN partialText ELSE bs[j]],
     currentBulletIndex |-> i - 1,
     currentBulletText |-> partialText]

\* the snapshot mapped from a partial text of bullet i (i counts from 1 here, from 0 in the code)
PartialSnapshot(bs, i, partialText) ==
    [isComplete |-> FALSE,
     bulletPoints |-> [j \in 1..Len(bs) |-> IF j < i THEN bs[j] ELSE IF j = i THEN partialText ELSE <<>>],
     currentBulletIndex |-> i - 1,
     currentBulletText |-> partialText]

\* an empty state that is not marked complete
EmptySnapshotNotComplete ==
    [isComplete |-> FALSE, bulletPoints |-> <<>>, currentBulletIndex |-> -1, currentBulletText |-> <<>>]

EmptySnapshot ==
    [isComplete |-> TRUE, bulletPoints |-> <<>>, currentBulletIndex |-> -1, currentBulletText |-> <<>>]

\* a final state that is not marked complete
FinalSnapshotNotComplete(bs) ==
    [isComplete |-> FALSE, bulletPoints |-> bs, currentBulletIndex |-> Len(bs) - 1,
     currentBulletText |-> bs[Len(bs)]]

FinalSnapshot(bs) ==
    [isComplete |-> TRUE, bulletPoints |-> bs, currentBulletIndex |-> Len(bs) - 1,
     currentBulletText |-> bs[Len(bs)]]

\* the tap of the signal revision: streamedBullets grown to index i and set there
TapStreamedBullets(sb, i, partialText) ==
    [j \in 1..(IF Len(sb) >= i THEN Len(sb) ELSE i) |->
        IF j = i THEN partialText ELSE IF j <= Len(sb) THEN sb[j] ELSE <<>>]

\* a bullet stream that ends after its first character
NextWaitAfterFirstCharacter(bs, i, acc) ==
    IF Len(acc) < 1 /\ Len(bs[i]) > 0 THEN "typing"
    ELSE IF i < Len(bs) THEN "pause"
    ELSE "final"

\* where concat waits next once bullet i has delivered the prefix acc: the next character
\* timer, the 400 ms pause before bullet i + 1, or the final snapshot
NextWait(bs, i, acc) ==
    IF Len(acc) < Len(bs[i]) THEN "typing"
    ELSE IF i < Len(bs) THEN "pause"
    ELSE "final"

\* Math.random() is drawn in hundredths: r / RandomScale lies in [0, 1)
RandomScale == 100

RandomDraws == {0, RandomScale - 1}

\* delay(Math.random() * 40 + 30), in whole ms
charDelay(r) == (r * 40) \div RandomScale + 30

\* delay(Math.random() * 45) of the signal revision, in whole ms
charDelaySignal(r) == (r * 45) \div RandomScale

\* a pause that takes no time
interSegmentPauseOfZero == [kind |-> "pause", ms |-> 0]

\* delay(400): the pause concat puts before the stream of every bullet but the first
interSegmentPause == [kind |-> "pause", ms |-> 400]

\* a subscription made without takeUntil: destroy$ does not stop the stream
takeUntilNotPiped(pc) == pc

\* takeUntil(this.destroy$): where the stream stands once destroy$ has emitted
takeUntil(pc) == IF pc \in {"http", "typing", "pause"} THEN "cancelled" ELSE pc

\* the complete handler of the subscription in processStreamingPdf
CompleteHandler(sb) ==
    /\ summaryBullets' = sb
    /\ isProcessing' = FALSE
    /\ logged' = logged \cup {"pdf_streaming_processing_complete"}

\* a concat whose last element emits no snapshot
FinishWithoutSnapshot(bs, snaps) ==
    /\ snapshots' = snaps
    /\ streamedBullets' = bs
    /\ isStreamingComplete' = TRUE
    /\ stPc' = "complete"
    /\ CompleteHandler(bs)

\* the last element of concat: final snapshot, its tap, completion, finalize, complete handler
Finish(bs, snaps) ==
    /\ snapshots' = Append(snaps, FinalSnapshot(bs))
    /\ streamedBullets' = bs
    /\ isStreamingComplete' = TRUE
    /\ stPc' = "complete"
    /\ CompleteHandler(bs)

\* processStreamingPdf(file) up to its first await
CallProcessStreamingPdf(file) ==
    /\ stPc = "idle"
    /\ progress' = 0
    /\ error' = IF file.present /\ ~validateFile(file).ok THEN Msg(validateFile(file).message) ELSE NoMsg
    /\ IF ~file.present
       THEN \* file.name throws: the promise rejects before summaryBullets is reset
            /\ isProcessing' = TRUE
            /\ stPc' = "threw"
            /\ UNCHANGED <<summaryBullets, logged>>
       ELSE IF ~validateFile(file).ok
       THEN /\ isProcessing' = FALSE
            /\ summaryBullets' = <<>>
            /\ stPc' = "failed"
            /\ UNCHANGED logged
       ELSE /\ isProcessing' = TRUE
            /\ summaryBullets' = <<>>
            /\ stPc' = "extracting"
            /\ logged' = logged \cup {"pdf_streaming_processing_start"}
    /\ UNCHANGED <<bullets, bulletIdx, scanAcc, snapshots, isStreamingComplete, currentBulletIndex,
                   currentBulletText, streamedBullets, destroyedAt, extractedText, remotePlan, waitsBefore,
                   pendingWaits, postCount,
                   otherPc, errVars, rlVars, pdfVars>>

\* the await of firstValueFrom returns or throws
StreamExtractionAnswers(outcome) ==
    /\ stPc = "extracting"
    /\ extractedText' = IF outcome.kind = "error" THEN extractedText
                        ELSE IF outcome.empty THEN "empty" ELSE "nonempty"
    /\ IF outcome.kind = "object"
       THEN \* generateStreamingSummary: resetStreamingState, then the POST is subscribed
            /\ isStreamingComplete' = FALSE
            /\ currentBulletIndex' = -1
            /\ currentBulletText' = <<>>
            /\ streamedBullets' = <<>>
            /\ postCount' = postCount + 1
            /\ stPc' = "http"
            /\ UNCHANGED <<isProcessing, error, logged>>
       ELSE /\ error' = Msg(IF outcome.kind = "error" THEN outcome.error.message.s
                            ELSE <<"F","a","i","l","e","d"," ","t","o"," ","e","x","t","r","a","c","t"," ","t","e","x","t"," ","f","r","o","m"," ","P","D","F">>)
            /\ isProcessing' = FALSE
            /\ logged' = logged \cup {"pdf_streaming_processing_error"}
            /\ stPc' = "failed"
            /\ UNCHANGED <<isStreamingComplete, currentBulletIndex, currentBulletText, streamedBullets,
                           postCount>>
    /\ UNCHANGED <<progress, summaryBullets, bullets, bulletIdx, scanAcc, snapshots, destroyedAt,
                   remotePlan, waitsBefore, pendingWaits, otherPc, errVars, rlVars, pdfVars>>

\* the POST answers with a summary and the concatMap body runs
SummaryArrives(bs) ==
    /\ stPc = "http"
    /\ remotePlan[postCount].ok
    /\ bullets' = bs
    /\ scanAcc' = <<>>
    /\ IF Len(bs) = 0
       THEN /\ isStreamingComplete' = TRUE
            /\ snapshots' = Append(snapshots, EmptySnapshot)
            /\ stPc' = "complete"
            /\ bulletIdx' = 0
            /\ CompleteHandler(streamedBullets)
            /\ waitsBefore' = Append(waitsBefore, pendingWaits)
            /\ UNCHANGED streamedBullets
       ELSE IF NextWait(bs, 1, <<>>) = "final"
       THEN /\ bulletIdx' = 1
            /\ Finish(bs, snapshots)
            /\ waitsBefore' = Append(waitsBefore, pendingWaits)
       ELSE /\ bulletIdx' = IF NextWait(bs, 1, <<>>) = "pause" THEN 2 ELSE 1
            /\ stPc' = NextWait(bs, 1, <<>>)
            /\ UNCHANGED <<snapshots, isStreamingComplete, streamedBullets, summaryBullets,
                           isProcessing, logged, waitsBefore>>
    /\ UNCHANGED <<error, progress, currentBulletIndex, currentBulletText, destroyedAt, pendingWaits,
                   extractedText, remotePlan, postCount, otherPc, errVars, rlVars, pdfVars>>

\* the POST fails: the catchError of generateSummary logs 'claude_api_error' and answers
\* with { result: { summary: [] } }, and the concatMap body runs on that
SummaryFails ==
    /\ stPc = "http"
    /\ ~remotePlan[postCount].ok
    /\ bullets' = <<>>
    /\ scanAcc' = <<>>
    /\ bulletIdx' = 0
    /\ isStreamingComplete' = TRUE
    /\ snapshots' = Append(snapshots, EmptySnapshot)
    /\ stPc' = "complete"
    /\ summaryBullets' = streamedBullets
    /\ isProcessing' = FALSE
    /\ logged' = logged \cup {"claude_api_error", "pdf_streaming_processing_complete"}
    /\ waitsBefore' = Append(waitsBefore, pendingWaits)
    /\ UNCHANGED <<streamedBullets, error, progress, currentBulletIndex, currentBulletText, destroyedAt,
                   pendingWaits, extractedText, remotePlan, postCount, otherPc, errVars, rlVars, pdfVars>>

\* the delay of the next character elapses: scan, tap, map, and whatever concat does next
CharacterTimerFires ==
    /\ stPc = "typing"
    /\ \E r \in RandomDraws :
       LET i == bulletIdx
           partialText == Append(scanAcc, bullets[i][Len(scanAcc) + 1])
           snaps == Append(snapshots, PartialSnapshot(bullets, i, partialText))
           nxt == NextWait(bullets, i, partialText)
           elapsed == Append(pendingWaits, [kind |-> "char", ms |-> charDelaySignal(r)])
       IN /\ currentBulletIndex' = i - 1
          /\ currentBulletText' = partialText
          /\ pendingWaits' = <<>>
          /\ IF nxt = "final"
             THEN /\ Finish(bullets, snaps)
                  /\ waitsBefore' = Append(Append(waitsBefore, elapsed), <<>>)
                  /\ UNCHANGED <<bulletIdx, scanAcc>>
             ELSE /\ snapshots' = snaps
                  /\ waitsBefore' = Append(waitsBefore, elapsed)
                  /\ streamedBullets' = TapStreamedBullets(streamedBullets, i, partialText)
                  /\ stPc' = nxt
                  /\ bulletIdx' = IF nxt = "pause" THEN i + 1 ELSE i
                  /\ scanAcc' = IF nxt = "pause" THEN <<>> ELSE partialText
                  /\ UNCHANGED <<isStreamingComplete, summaryBullets, isProcessing, logged>>
    /\ UNCHANGED <<bullets, error, progress, destroyedAt, extractedText, remotePlan, postCount, otherPc,
                   errVars, rlVars, pdfVars>>

\* the 400 ms pause elapses: the stream of bullet bulletIdx is subscribed
PauseElapses ==
    /\ stPc = "pause"
    /\ LET nxt == NextWait(bullets, bulletIdx, <<>>)
           elapsed == Append(pendingWaits, interSegmentPause)
       IN
       IF nxt = "final"
       THEN /\ Finish(bullets, snapshots)
            /\ waitsBefore' = Append(waitsBefore, elapsed)
            /\ pendingWaits' = <<>>
            /\ UNCHANGED <<bulletIdx, scanAcc>>
       ELSE /\ stPc' = nxt
            /\ bulletIdx' = IF nxt = "pause" THEN bulletIdx + 1 ELSE bulletIdx
            /\ pendingWaits' = elapsed
            /\ UNCHANGED <<scanAcc, snapshots, streamedBullets, isStreamingComplete, summaryBullets,
                           isProcessing, logged, waitsBefore>>
    /\ UNCHANGED <<bullets, error, progress, currentBulletIndex, currentBulletText, destroyedAt,
                   extractedText, remotePlan, postCount, otherPc, errVars, rlVars, pdfVars>>

\* SummarizationService.ngOnDestroy: destroy$.next(true); destroy$.complete()
Destroy ==
    /\ destroyedAt = "none"
    /\ destroyedAt' = stPc
    /\ stPc' = takeUntil(stPc)
    /\ otherPc' = IF otherPc = "http" THEN "cancelled" ELSE otherPc
    /\ IF stPc \in {"http", "typing", "pause"}
       THEN \* takeUntil completes its subscriber, then the source is unsubscribed (finalize)
            /\ CompleteHandler(streamedBullets)
            /\ isStreamingComplete' = (isStreamingComplete \/ stPc \in {"typing", "pause"})
       ELSE IF otherPc = "http"
       THEN \* the complete handler of the second invocation's subscription
            /\ summaryBullets' = streamedBullets
            /\ isProcessing' = FALSE
            /\ UNCHANGED <<logged, isStreamingComplete>>
       ELSE UNCHANGED <<summaryBullets, isProcessing, logged, isStreamingComplete>>
    /\ UNCHANGED <<bullets, bulletIdx, scanAcc, snapshots, currentBulletIndex, currentBulletText,
                   streamedBullets, extractedText, remotePlan, waitsBefore, pendingWaits, postCount,
                   error, progress,
                   errVars, rlVars, pdfVars>>

\* how the remote answers the successive POSTs of one invocation
RemotePlans ==
    LET serverError == [kind |-> "object", status |-> Num(503), statusCode |-> Absent, message |-> NoMsg,
                        nested |-> NoMsg, retryable |-> FALSE]
    IN {<<OkResponse>>,
        <<FailingWith(serverError)>>,
        <<FailingWith(serverError), FailingWith(serverError), OkResponse>>,
        <<FailingWith(ErrorOf(<<"N","e","t","w","o","r","k"," ","d","o","w","n">>))>>}

StreamInit ==
    /\ SigIdle
    /\ StStart
    /\ remotePlan \in RemotePlans
    /\ ErrIdle
    /\ RlIdle
    /\ PdfIdle

StreamNext ==
    \/ \E file \in Files : CallProcessStreamingPdf(file)
    \/ \E outcome \in StreamExtractionOutcomes : StreamExtractionAnswers(outcome)
    \/ \E bs \in BulletLists : SummaryArrives(bs)
    \/ SummaryFails
    \/ CharacterTimerFires
    \/ PauseElapses
    \/ Destroy

SpecStream == StreamInit /\ [][StreamNext]_vars

\* the timers of delay() fire: every character delay and every 400 ms pause elapses
SpecStreamLive ==
    StreamInit /\ [][StreamNext]_vars /\ WF_vars(CharacterTimerFires) /\ WF_vars(PauseElapses)

----------------------------------------------------------------------------
(* A second processStreamingPdf invocation on the same services, overlapping the first *)

\* what the history variables of the first invocation and the inputs keep
OtherFrame ==
    UNCHANGED <<stPc, bullets, bulletIdx, scanAcc, snapshots, destroyedAt, logged, extractedText,
                remotePlan, waitsBefore, pendingWaits, postCount, errVars, rlVars, pdfVars>>

\* the second call of processStreamingPdf(file), up to its first await
OtherCallProcessStreamingPdf(file) ==
    /\ otherPc = "idle"
    /\ stPc # "idle"
    /\ progress' = 0
    /\ error' = IF file.present /\ ~validateFile(file).ok THEN Msg(validateFile(file).message) ELSE NoMsg
    /\ IF ~file.present
       THEN /\ isProcessing' = TRUE
            /\ otherPc' = "threw"
            /\ UNCHANGED summaryBullets
       ELSE IF ~validateFile(file).ok
       THEN /\ isProcessing' = FALSE
            /\ summaryBullets' = <<>>
            /\ otherPc' = "failed"
       ELSE /\ isProcessing' = TRUE
            /\ summaryBullets' = <<>>
            /\ otherPc' = "extracting"
    /\ UNCHANGED <<isStreamingComplete, currentBulletIndex, currentBulletText, streamedBullets>>
    /\ OtherFrame

\* the await of firstValueFrom of the second invocation returns or throws
OtherExtractionAnswers(outcome) ==
    /\ otherPc = "extracting"
    /\ IF outcome.kind = "object"
       THEN \* generateStreamingSummary: resetStreamingState, then the POST is subscribed
            /\ isStreamingComplete' = FALSE
            /\ currentBulletIndex' = -1
            /\ currentBulletText' = <<>>
            /\ streamedBullets' = <<>>
            /\ otherPc' = "http"
            /\ UNCHANGED <<isProcessing, error>>
       ELSE /\ error' = Msg(IF outcome.kind = "error" THEN outcome.error.message.s
                            ELSE <<"F","a","i","l","e","d"," ","t","o"," ","e","x","t","r","a","c","t"," ","t","e","x","t"," ","f","r","o","m"," ","P","D","F">>)
            /\ isProcessing' = FALSE
            /\ otherPc' = "failed"
            /\ UNCHANGED <<isStreamingComplete, currentBulletIndex, currentBulletText, streamedBullets>>
    /\ UNCHANGED <<summaryBullets, progress>>
    /\ OtherFrame

\* the POST of the second invocation answers with an empty summary, or fails and
\* catchError answers with one: the empty state is emitted and the stream completes
OtherSummaryEmpty ==
    /\ otherPc = "http"
    /\ isStreamingComplete' = TRUE
    /\ summaryBullets' = streamedBullets
    /\ isProcessing' = FALSE
    /\ otherPc' = "complete"
    /\ UNCHANGED <<error, progress, currentBulletIndex, currentBulletText, streamedBullets>>
    /\ OtherFrame

OverlapNext ==
    \/ StreamNext
    \/ \E file \in Files : OtherCallProcessStreamingPdf(file)
    \/ \E outcome \in StreamExtractionOutcomes : OtherExtractionAnswers(outcome)
    \/ OtherSummaryEmpty

\* two invocations of processStreamingPdf in flight on the root-provided services
SpecOverlap == StreamInit /\ [][OverlapNext]_vars

\* the first invocation is in flight
InFlight == stPc \in {"extracting", "http", "typing", "pause"}

\* C25: the streaming state one invocation exposes is never changed by a step of
\* another invocation that overlaps it
C25_NoSharedStreamingState ==
    [][(InFlight /\ otherPc' # otherPc /\ destroyedAt' = destroyedAt)
        => UNCHANGED <<streamedBullets, currentBulletIndex, currentBulletText, isStreamingComplete,
                       summaryBullets, error, isProcessing>>]_vars

\* destroy$ fired after some but not all snapshots of the invocation were delivered
CancelledMidStream ==
    /\ destroyedAt \in {"typing", "pause"}
    /\ snapshots # <<>>

\* C7: once a streaming summary is cancelled mid-stream, no further snapshot is
\* delivered and no snapshot with isComplete = true is ever delivered
C7_NoSnapshotAfterCancel ==
    /\ [][CancelledMidStream => snapshots' = snapshots]_vars
    /\ [](CancelledMidStream => \A k \in 1..Len(snapshots) : ~snapshots[k].isComplete)

\* a stream stopped by destroy$ with a part of its snapshots delivered
C7_Witness ==
    /\ CancelledMidStream
    /\ stPc = "cancelled"
    /\ Len(bullets) > 1

\* C8: a stream stopped by destroy$ before its terminal snapshot does not run the success
\* handler (summaryBullets is not overwritten, no 'pdf_streaming_processing_complete')
\* and does not set the error signal
C8_CancelIsNotSuccess ==
    (destroyedAt \in {"http", "typing", "pause"})
    => /\ summaryBullets = <<>>
       /\ "pdf_streaming_processing_complete" \notin logged
       /\ ~error.has

\* generateStreamingSummary ran to its completion, undisturbed by destroy$
StreamCompleted == stPc = "complete" /\ destroyedAt = "none"

\* C15: for an empty segment list generateStreamingSummary emits exactly one snapshot,
\* {isComplete: true, bulletPoints: [], currentBulletIndex: -1, currentBulletText: ''},
\* and completes
C15_EmptyListOneSnapshot ==
    (stPc = "complete" /\ bullets = <<>>)
    => snapshots = <<[isComplete |-> TRUE, bulletPoints |-> <<>>, currentBulletIndex |-> -1,
                      currentBulletText |-> <<>>]>>

\* the summary came back empty and the stream completed
C15_Witness ==
    /\ StreamCompleted
    /\ bullets = <<>>
    /\ Len(snapshots) = 1

\* p is a prefix of s
IsPrefixOf(p, s) == Len(p) <= Len(s) /\ \A j \in 1..Len(p) : p[j] = s[j]

\* C16: every snapshot with isComplete = false and currentBulletIndex = i has as many
\* bulletPoints as there are segments, the final text at every index below i, '' at
\* every index above i, and at i the currentBulletText, a non-empty prefix of segment i
C16_PartialSnapshotShape ==
    \A k \in 1..Len(snapshots) :
        ~snapshots[k].isComplete
        => LET sn == snapshots[k]
               i == sn.currentBulletIndex + 1
           IN /\ Len(sn.bulletPoints) = Len(bullets)
              /\ i \in 1..Len(bullets)
              /\ \A j \in 1..(i - 1) : sn.bulletPoints[j] = bullets[j]
              /\ \A j \in (i + 1)..Len(bullets) : sn.bulletPoints[j] = <<>>
              /\ sn.bulletPoints[i] = sn.currentBulletText
              /\ sn.currentBulletText # <<>>
              /\ IsPrefixOf(sn.currentBulletText, bullets[i])

\* a snapshot of the middle one of three segments was delivered
C16_Witness ==
    /\ Len(bullets) = 3
    /\ \E k \in 1..Len(snapshots) :
        /\ ~snapshots[k].isComplete
        /\ snapshots[k].currentBulletIndex = 1
        /\ snapshots[k].bulletPoints[1] # <<>>

\* the last snapshot delivered is the complete state of the input segments
LastSnapshotIsFinal ==
    /\ snapshots # <<>>
    /\ bullets # <<>>
    /\ snapshots[Len(snapshots)] =
         [isComplete |-> TRUE, bulletPoints |-> bullets, currentBulletIndex |-> Len(bullets) - 1,
          currentBulletText |-> bullets[Len(bullets)]]

\* C17: for a non-empty segment list, a stream that is not cancelled eventually
\* completes, and its last snapshot has isComplete = true, bulletPoints equal to the
\* segments, currentBulletIndex = segments.length - 1 and the last segment as text
C17_EventuallyFinalSnapshot ==
    (bullets # <<>> /\ destroyedAt = "none")
    ~> ((stPc = "complete" /\ LastSnapshotIsFinal) \/ destroyedAt # "none")

\* a stream of several segments completed without cancellation
C17_Witness ==
    /\ StreamCompleted
    /\ Len(bullets) >= 2
    /\ LastSnapshotIsFinal

\* the snapshots delivered with isComplete = false, in order
PartialSnapshots == SelectSeq(snapshots, LAMBDA sn : ~sn.isComplete)

C19_EmptyTextRejectedLocally ==
    extractedText = "empty" => stPc = "failed"

\* the POST to /api/summary of this invocation was issued
PostIssued == stPc \in {"http", "typing", "pause", "complete", "cancelled"}

\* C20: the remote summary call is preceded by a completed checkRateLimit admission,
\* and snapshots are streamed only after the remote call returned
C20_AdmissionBeforePost ==
    /\ PostIssued => admissions # <<>>
    /\ snapshots # <<>> => stPc \notin {"idle", "extracting", "http"}

\* the remote summary call of the invocation failed
RemoteCallFailed ==
    /\ postCount >= 1
    /\ ~remotePlan[postCount].ok
    /\ stPc # "http"
    /\ destroyedAt = "none"

\* C21: when the remote summary call fails, generateStreamingSummary emits no snapshot
\* (none with isComplete = true in particular) and the failure reaches the caller as an
\* error outcome
C21_FailureEntersNoStreaming ==
    RemoteCallFailed
    => /\ snapshots = <<>>
       /\ error.has
       /\ "pdf_streaming_processing_complete" \notin logged

\* the invocation ended: its stream completed or it failed
StreamEnded == stPc \in {"complete", "failed"} /\ destroyedAt = "none"

\* C22: when the remote call fails twice with server errors and succeeds on the 3rd
\* attempt, the snapshots of the invocation end with one that has isComplete = true and
\* the bulletPoints the 3rd attempt returned
C22_ThirdAttemptIsStreamed ==
    (StreamEnded /\ postCount >= 1 /\ Len(remotePlan) = 3)
    => /\ postCount = 3
       /\ snapshots # <<>>
       /\ snapshots[Len(snapshots)].isComplete
       /\ snapshots[Len(snapshots)].bulletPoints = bullets

\* the number of 400 ms pauses among the timers w
PausesIn(w) == Cardinality({j \in 1..Len(w) : w[j].kind = "pause"})

\* C31: exactly one pause of 400 ms lies between the last snapshot of segment i and the
\* first snapshot of segment i + 1; none precedes the first segment, none separates the
\* last segment's final prefix from the terminal snapshot
C31_OnePauseBetweenSegments ==
    \A k \in 1..Len(snapshots) :
        LET w == waitsBefore[k]
            snap == snapshots[k]
        IN /\ \A j \in 1..Len(w) : w[j].kind = "pause" => w[j].ms = 400
           /\ (k = 1 /\ ~snap.isComplete /\ snap.currentBulletIndex = 0) => PausesIn(w) = 0
           /\ (k > 1 /\ ~snap.isComplete /\ ~snapshots[k - 1].isComplete
                 /\ snap.currentBulletIndex = snapshots[k - 1].currentBulletIndex + 1)
              => PausesIn(w) = 1
           /\ (k > 1 /\ snap.isComplete /\ ~snapshots[k - 1].isComplete
                 /\ snapshots[k - 1].currentBulletIndex = Len(snap.bulletPoints) - 1)
              => PausesIn(w) = 0

\* three segments were streamed to completion, with a pause before the second and the third
C31_Witness ==
    /\ StreamCompleted
    /\ Len(bullets) = 3
    /\ Cardinality({k \in 1..Len(snapshots) : PausesIn(waitsBefore[k]) = 1}) = 2
    /\ PausesIn(waitsBefore[1]) = 0
    /\ PausesIn(waitsBefore[Len(snapshots)]) = 0

\* the stated bounds of the per-character delay, in ms
CharDelayBounds == 30..70

\* C32: every per-character delay of the streaming simulation lies within 30 ms to
\* 70 ms, in both revisions of generateStreamingSummary
C32_CharDelayWithinBounds ==
    /\ \A r \in RandomDraws : charDelay(r) \in CharDelayBounds
    /\ \A k \in 1..Len(waitsBefore) : \A j \in 1..Len(waitsBefore[k]) :
            waitsBefore[k][j].kind = "char" => waitsBefore[k][j].ms \in CharDelayBounds

\* C33: isStreamingComplete() = true implies that streamedBullets() is the complete
\* final segment list of the invocation ([] for an empty summary), never a partial list
C33_CompleteMeansAllBullets ==
    isStreamingComplete => streamedBullets = bullets

RECURSIVE TotalLength(_)
\* l_0 + ... + l_(n-1)
TotalLength(bs) == IF bs = <<>> THEN 0 ELSE Len(bs[1]) + TotalLength(Tail(bs))

====
